---------------------------- MODULE Spec2Model ----------------------------
(***************************************************************************)
(* A model of margaret/experiments/eb/go.py: the GO-term query step        *)
(* (generate_go_terms), the pattern filter (filter_go_terms) and the       *)
(* cluster-by-term heatmap step (generate_go_heatmap).                     *)
(*                                                                         *)
(* Four specifications share the variables below:                          *)
(*   SpecSelect  generate_go_terms on one cluster whose DE columns are     *)
(*               given up front (the threshold filter and top-N choice)    *)
(*   SpecTerms   generate_go_terms, one action per loop iteration          *)
(*   SpecFilter  filter_go_terms, one action per pattern, then the lookup  *)
(*   SpecHeat    generate_go_heatmap, one action per statement group       *)
(*                                                                         *)
(* Numbers: log-fold-changes and scores are small integers, adjusted       *)
(* p-values are in hundredths, GO p-values are in thousandths and          *)
(* transformed p-values are in thousandths, rounded.                       *)
(*                                                                         *)
(* What the model takes from the libraries the script calls:               *)
(*  - gene names are unique within a cluster's DE columns;                 *)
(*  - Series.sort_values is not stable, so ties come in any order;         *)
(*  - a Python set is iterated in an arbitrary order, the same order each  *)
(*    time the unchanged set is iterated;                                  *)
(*  - DataFrame.loc[labels] returns, label by label, every row carrying    *)
(*    the label; loc accepts a set of labels (pandas before 2.0);          *)
(*  - df.loc[:, col] = scalar raises on a frame without rows;              *)
(*  - df.loc[row, cols] = series aligns the series to cols by label and    *)
(*    raises when it has to reindex a series with repeated labels;         *)
(*  - os.path.join(None, name) raises;                                     *)
(*  - patterns are literals, matched by re.match with re.IGNORECASE.       *)
(* Files are read when the code reads them: an iteration that reads a      *)
(* cluster's DE columns or GO-results file draws their content there, and  *)
(* the heatmap arguments order, groups and color_map are drawn by the      *)
(* step that first reads them.                                             *)
(***************************************************************************)
EXTENDS Integers, Sequences, FiniteSets, TLC

\* ------------------------------------------------------------- bounds
\* Most rows of one cluster's differential-expression table.
MaxGenes == 2
\* Most entries of go_clusters.
MaxQuery == 2
\* Most rows of a GO-results file.
MaxRows == 2
\* Most lines of a pattern file.
MaxPats == 2

\* Python's None for a string argument, and for a list argument (an
\* optional list is a record that says whether a list was given).
None == "None"
NoList == [given |-> FALSE, list |-> <<>>]
Given(s) == [given |-> TRUE, list |-> s]

\* ------------------------------------------------------------ helpers
Range(s) == {s[i] : i \in 1..Len(s)}

Injective(s) == \A i, j \in 1..Len(s) : s[i] = s[j] => i = j

\* All sequences without repetition that list exactly the members of S:
\* the iteration orders list(S) may produce for a Python set S.
Orders(S) == {s \in [1..Cardinality(S) -> S] : Range(s) = S}

Take(s, n) == IF n >= Len(s) THEN s ELSE SubSeq(s, 1, n)

VARIABLES
    pc,               \* where the running function stands
    \* ---- generate_go_terms
    communities,      \* ad.obs[clusters_key]: the set of labels that occur
    go_clusters,      \* the go_clusters argument: NoList or Given(list)
    lfc_cutoff,       \* the lfc_cutoff argument
    pval_cutoff,      \* the pval_cutoff argument (hundredths)
    n_top,            \* the n_top argument
    save_dir,         \* the save_dir argument: None or a directory
    pos,              \* loop iterations completed
    table,            \* de_res columns of the cluster of the last iteration
    remaining_genes,  \* local remaining_genes after line 56
    log,              \* per iteration, the cluster and query size printed
    gprofiler_calls,  \* per gprofiler() call, the cluster and query size
    query,            \* the query= argument of the latest gprofiler() call
    written,          \* clusters whose GO_<cluster>.csv was written, in order
    \* ---- filter_go_terms
    patterns,         \* the lines of the pattern file, newline stripped
    go_df,            \* the rows of the GO-results file, in file order
    npat,             \* patterns already matched by the loop of line 86
    unique_ids,       \* local unique_ids
    filtered,         \* the returned table, as its rows in order
    go_ids,           \* the returned list(unique_ids)
    \* ---- generate_go_heatmap
    term_paths,       \* the keys of term_paths, in dict order
    save_filtered_df, \* the save_filtered_df argument
    save_path,        \* the save_path argument: None or a directory
    order,            \* the order argument, once line 149 has read it
    groups,           \* the groups argument, once line 159 has read it
    color_map,        \* whether color_map is given, once line 168 has read it
    hpos,             \* clusters handled by the loop of line 113
    id_dict,          \* cluster -> its go_ids
    pval_dict,        \* cluster -> its transformed p-values, a labelled series
    heat_unique_ids,  \* local unique_ids of generate_go_heatmap
    big_df,           \* the rows of big_df, in order
    xlsx,             \* the spreadsheet GO_<n>.xlsx: whether written, its rows
    heat_go_df,       \* the cluster x term matrix: index, columns, cells
    var_names,        \* the var_names handed to sc.pl.heatmap
    png,              \* whether GO_<n>.png was written
    err               \* the step that raised, "" while none did

termsVars == <<communities, go_clusters, lfc_cutoff, pval_cutoff, n_top,
               save_dir, pos, table, remaining_genes, log,
               gprofiler_calls, query, written>>

filterVars == <<patterns, go_df, npat, unique_ids, filtered, go_ids>>

heatArgs == <<term_paths, save_filtered_df, save_path>>

heatVars == <<heatArgs, order, groups, color_map, hpos, id_dict, pval_dict,
              heat_unique_ids, big_df, xlsx, heat_go_df, var_names, png, err>>

vars == <<pc, termsVars, filterVars, heatVars>>

EmptyDict == [c \in {} |-> <<>>]
NoTable == [written |-> FALSE, rows |-> <<>>]
NoMatrix == [built |-> FALSE, index |-> <<>>, columns |-> <<>>, cells |-> EmptyDict]
NoVarNames == [grouped |-> FALSE, list |-> <<>>, groups |-> <<>>]

HeatStart ==
    /\ order = NoList /\ groups = NoList /\ color_map = FALSE
    /\ hpos = 0 /\ id_dict = EmptyDict /\ pval_dict = EmptyDict
    /\ heat_unique_ids = {} /\ big_df = <<>> /\ xlsx = NoTable
    /\ heat_go_df = NoMatrix /\ var_names = NoVarNames /\ png = FALSE
    /\ err = ""

HeatIdle ==
    /\ term_paths = <<>> /\ save_filtered_df = FALSE /\ save_path = None
    /\ HeatStart

\* The variables of the functions a specification does not run.
TermsIdle ==
    /\ communities = {} /\ go_clusters = NoList /\ lfc_cutoff = 0
    /\ pval_cutoff = 0 /\ n_top = 0 /\ save_dir = None /\ pos = 0
    /\ table = <<>> /\ remaining_genes = <<>> /\ log = <<>>
    /\ gprofiler_calls = <<>> /\ query = <<>> /\ written = <<>>

FilterIdle ==
    /\ patterns = <<>> /\ go_df = <<>> /\ npat = 0 /\ unique_ids = {}
    /\ filtered = <<>> /\ go_ids = <<>>

\* ================================================== generate_go_terms
ClusterLabels == {0, 1}
Scores == {1, 2}
LfcVals == {0, 1, 2}
AdjpVals == {4, 5, 6}
LfcCutoffs == {1, 2}
PvalCutoffs == {5}
SaveDirs == {None, "out"}

GeneAttr == [score : Scores, lfc : LfcVals, adjp : AdjpVals]

\* One cluster's columns of the rank_genes_groups result: row i is the gene
\* named i (names are the variable names, each listed once per cluster).
GeneTables ==
    UNION {{[i \in 1..n |->
                [name |-> i, score |-> a[i].score, lfc |-> a[i].lfc,
                 adjp |-> a[i].adjp]] : a \in [1..n -> GeneAttr]}
           : n \in 0..MaxGenes}

\* np.unique(communities): the distinct labels, ascending.
cluster_ids(comm) ==
    CHOOSE s \in Orders(comm) : \A i, j \in 1..Len(s) : i < j => s[i] < s[j]

\* Line 30.
query_cluster_ids(comm, goc) ==
    IF ~goc.given THEN cluster_ids(comm) ELSE goc.list

\* A variant of mask with exclusive bounds.
mask_Exclusive(row, lfcCut, pvalCut) == row.lfc > lfcCut /\ row.adjp < pvalCut

\* Lines 46-48: the boolean mask of one row.
mask(row, lfcCut, pvalCut) == row.lfc >= lfcCut /\ row.adjp <= pvalCut

\* Line 51: gene_index[mask], the names of the rows the mask keeps, in
\* table order.
RECURSIVE MaskedNames(_, _, _, _)
MaskedNames(t, lfcCut, pvalCut, k) ==
    IF k > Len(t) THEN <<>>
    ELSE (IF mask(t[k], lfcCut, pvalCut) THEN <<t[k].name>> ELSE <<>>)
         \o MaskedNames(t, lfcCut, pvalCut, k + 1)

\* scores.loc[name]: the score of the row with that name.
ScoreOf(t, name) == t[CHOOSE i \in 1..Len(t) : t[i].name = name].score

\* Line 54: scores.loc[remaining_genes], as (name, score) pairs.
filtered_scores(t, names) ==
    [i \in 1..Len(names) |-> [name |-> names[i], score |-> ScoreOf(t, names[i])]]

\* A variant of SortedDescending that sorts ascending.
SortedAscending(fs) ==
    {[i \in 1..Len(fs) |-> fs[p[i]]] : p \in
        {q \in Orders(1..Len(fs)) :
            \A i, j \in 1..Len(fs) : i < j => fs[q[i]].score <= fs[q[j]].score}}

\* Line 55, sort_values(ascending=False): the default sort is not stable,
\* so every arrangement with non-increasing scores is a possible result.
SortedDescending(fs) ==
    {[i \in 1..Len(fs) |-> fs[p[i]]] : p \in
        {q \in Orders(1..Len(fs)) :
            \A i, j \in 1..Len(fs) : i < j => fs[q[i]].score >= fs[q[j]].score}}

\* Lines 51-56: the possible values of remaining_genes (scores_.index).
TopGenes(t, lfcCut, pvalCut, nTop) ==
    {[i \in 1..Len(Take(s, nTop)) |-> s[i].name] :
        s \in SortedDescending(
                 filtered_scores(t, MaskedNames(t, lfcCut, pvalCut, 1)))}

\* A variant of IterationEffect without the empty-query check of line 58.
IterationEffect_NoSkip(idx, genes) ==
    /\ remaining_genes' = genes
    /\ pos' = pos + 1
    /\ log' = Append(log, [cluster |-> idx, size |-> Len(genes)])
    /\ gprofiler_calls' =
          Append(gprofiler_calls, [cluster |-> idx, size |-> Len(genes)])
    /\ query' = genes
    /\ written' = IF save_dir # None THEN Append(written, idx) ELSE written

\* A variant of IterationEffect that writes the file whatever save_dir is.
IterationEffect_AlwaysWrite(idx, genes) ==
    /\ remaining_genes' = genes
    /\ pos' = pos + 1
    /\ log' = Append(log, [cluster |-> idx, size |-> Len(genes)])
    /\ IF Len(genes) = 0
       THEN UNCHANGED <<gprofiler_calls, query, written>>
       ELSE /\ gprofiler_calls' =
                  Append(gprofiler_calls, [cluster |-> idx, size |-> Len(genes)])
            /\ query' = genes
            /\ written' = Append(written, idx)

\* Lines 58-68 of one iteration for cluster idx, once remaining_genes is
\* known: skip an empty query, else call gprofiler and write the file.
IterationEffect(idx, genes) ==
    /\ remaining_genes' = genes
    /\ pos' = pos + 1
    /\ log' = Append(log, [cluster |-> idx, size |-> Len(genes)])
    /\ IF Len(genes) = 0
       THEN \* lines 58-60
            UNCHANGED <<gprofiler_calls, query, written>>
       ELSE \* lines 62-68
            /\ gprofiler_calls' =
                  Append(gprofiler_calls, [cluster |-> idx, size |-> Len(genes)])
            /\ query' = genes
            /\ written' = IF save_dir # None
                           THEN Append(written, idx) ELSE written

\* The loop is exhausted and generate_go_terms returns.
ReturnTerms ==
    /\ pc = "loop"
    /\ pos = Len(query_cluster_ids(communities, go_clusters))
    /\ pc' = "done"
    /\ UNCHANGED <<termsVars, filterVars, heatVars>>

\* ---- SpecSelect: one queried cluster, its DE columns given up front.
InitSelect ==
    /\ pc = "loop"
    /\ communities = ClusterLabels
    /\ go_clusters \in {Given(<<c>>) : c \in ClusterLabels}
    /\ lfc_cutoff \in LfcCutoffs
    /\ pval_cutoff \in PvalCutoffs
    /\ n_top \in 0..MaxGenes
    /\ save_dir \in SaveDirs
    /\ pos = 0
    /\ table \in GeneTables
    /\ remaining_genes = <<>>
    /\ log = <<>>
    /\ gprofiler_calls = <<>>
    /\ query = <<>>
    /\ written = <<>>
    /\ FilterIdle
    /\ HeatIdle

\* The loop body (lines 35-68) on the cluster whose DE columns are table.
QueryCluster ==
    /\ pc = "loop"
    /\ pos < Len(query_cluster_ids(communities, go_clusters))
    /\ \E genes \in TopGenes(table, lfc_cutoff, pval_cutoff, n_top) :
          IterationEffect(query_cluster_ids(communities, go_clusters)[pos + 1],
                          genes)
    /\ UNCHANGED <<pc, communities, go_clusters, lfc_cutoff, pval_cutoff,
                   n_top, save_dir, table, filterVars, heatVars>>

NextSelect == QueryCluster \/ ReturnTerms

SpecSelect == InitSelect /\ [][NextSelect]_vars

\* ---- SpecTerms: the whole loop; each iteration reads its cluster's DE
\* columns (lines 39-42) from LoopTables, where only the fold change varies
\* (scores fall with the row number, adjusted p-values sit at the cutoff).
LoopTables ==
    {t \in GeneTables :
        \A i \in 1..Len(t) : t[i].score = (IF i = 1 THEN 2 ELSE 1) /\ t[i].adjp = 5}

\* go_clusters is None and any labels occur, or go_clusters is a list (which
\* may name a cluster that is no label of communities).
InitTerms ==
    /\ pc = "loop"
    /\ \/ /\ go_clusters = NoList
          /\ communities \in SUBSET ClusterLabels \ {{}}
       \/ /\ go_clusters \in
                {Given(s) : s \in UNION {[1..n -> ClusterLabels] : n \in 0..MaxQuery}}
          /\ communities = {0}
    /\ lfc_cutoff = 1
    /\ pval_cutoff \in PvalCutoffs
    /\ n_top \in 0..MaxGenes
    /\ save_dir \in SaveDirs
    /\ pos = 0
    /\ table = <<>>
    /\ remaining_genes = <<>>
    /\ log = <<>>
    /\ gprofiler_calls = <<>>
    /\ query = <<>>
    /\ written = <<>>
    /\ FilterIdle
    /\ HeatIdle

\* One iteration of the loop of lines 35-68, for the cluster
\* query_cluster_ids[pos + 1].
LoopIteration ==
    /\ pc = "loop"
    /\ pos < Len(query_cluster_ids(communities, go_clusters))
    /\ \E t \in LoopTables :
       \E genes \in TopGenes(t, lfc_cutoff, pval_cutoff, n_top) :
          /\ table' = t
          /\ IterationEffect(
                query_cluster_ids(communities, go_clusters)[pos + 1], genes)
    /\ UNCHANGED <<pc, communities, go_clusters, lfc_cutoff, pval_cutoff,
                   n_top, save_dir, filterVars, heatVars>>

NextTerms == LoopIteration \/ ReturnTerms

SpecTerms == InitTerms /\ [][NextTerms]_vars

\* ------------------------------------ properties of generate_go_terms
Min(a, b) == IF a <= b THEN a ELSE b

\* A row meets both thresholds, bounds included.
Passes(row) == row.lfc >= lfc_cutoff /\ row.adjp <= pval_cutoff

\* The genes of the current cluster that meet both thresholds.
PassingNames == {table[i].name : i \in {j \in 1..Len(table) : Passes(table[j])}}

RowOf(name) == table[CHOOSE i \in 1..Len(table) : table[i].name = name]

\* Some iteration has run / the last iteration called gprofiler.
Iterated == log # <<>>
Queried == Iterated /\ log[Len(log)].size > 0

ClustersOf(s) == [i \in 1..Len(s) |-> s[i].cluster]
NonEmptyEntry(e) == e.size > 0

\* C1: every gene submitted to the enrichment service has
\* log-fold-change >= lfc_cutoff and adjusted p-value <= pval_cutoff, and
\* when at most n_top genes pass both thresholds every passing gene is
\* submitted.
C1_SubmittedGenesPassThresholds ==
    Queried =>
        /\ \A k \in 1..Len(query) :
              /\ RowOf(query[k]).lfc >= lfc_cutoff
              /\ RowOf(query[k]).adjp <= pval_cutoff
        /\ Cardinality(PassingNames) <= n_top => PassingNames \subseteq Range(query)

\* A gene exactly on both cutoffs was submitted while another gene of the
\* table was left out for failing a threshold.
C1_Witness ==
    /\ Queried
    /\ \E k \in 1..Len(query) :
          RowOf(query[k]).lfc = lfc_cutoff /\ RowOf(query[k]).adjp = pval_cutoff
    /\ \E i \in 1..Len(table) :
          ~Passes(table[i]) /\ table[i].name \notin Range(query)

\* C2: the submitted gene list has size min(n_top, number of passing
\* genes), is ordered by descending score, and no passing gene left out has
\* a strictly greater score than a submitted one.
C2_TopNByScore ==
    Iterated =>
        /\ Len(remaining_genes) = Min(n_top, Cardinality(PassingNames))
        /\ Queried =>
              /\ query = remaining_genes
              /\ Injective(query)
              /\ \A i, j \in 1..Len(query) :
                    i < j => RowOf(query[i]).score >= RowOf(query[j]).score
              /\ \A g \in PassingNames \ Range(query) :
                    \A k \in 1..Len(query) :
                        RowOf(g).score <= RowOf(query[k]).score

\* n_top cut the list: a passing gene with a strictly lower score than a
\* submitted one was left out.
C2_Witness ==
    /\ Queried
    /\ Len(query) = n_top
    /\ \E g \in PassingNames \ Range(query) :
          \E k \in 1..Len(query) : RowOf(g).score < RowOf(query[k]).score

\* C3 as stated: after generate_go_terms finishes, a results file has been
\* written for each cluster of the queried set and for no other cluster.
C3_OneFilePerQueriedCluster ==
    pc = "done" =>
        Range(written) = Range(query_cluster_ids(communities, go_clusters))

\* C3 as amended: after generate_go_terms finishes, with save_dir given
\* the files written are those of the queried clusters for which a
\* non-empty gene list was submitted, one write per such iteration, in
\* order; with save_dir None nothing is written; no file is written for a
\* cluster outside the queried set.
C3_FilePerNonEmptyQuery ==
    pc = "done" =>
        /\ written = IF save_dir = None THEN <<>>
                     ELSE ClustersOf(SelectSeq(log, NonEmptyEntry))
        /\ Range(written) \subseteq
              Range(query_cluster_ids(communities, go_clusters))

\* The function finished having written a file for one cluster and skipped
\* another.
C3_Witness ==
    /\ pc = "done"
    /\ written # <<>>
    /\ \E k \in 1..Len(log) : log[k].size = 0 /\ log[k].cluster \notin Range(written)

\* C9: a cluster none of whose genes pass (or any cluster when n_top is 0)
\* is skipped, with no gprofiler call and no file; every cluster of the
\* queried sequence is processed, in order; gprofiler is never called with
\* an empty gene list.
C9_EmptyQuerySkipped ==
    /\ ClustersOf(log) =
          SubSeq(query_cluster_ids(communities, go_clusters), 1, pos)
    /\ pc = "done" =>
          Len(log) = Len(query_cluster_ids(communities, go_clusters))
    /\ (Iterated /\ (PassingNames = {} \/ n_top = 0)) => log[Len(log)].size = 0
    /\ gprofiler_calls = SelectSeq(log, NonEmptyEntry)
    /\ \A k \in 1..Len(gprofiler_calls) : gprofiler_calls[k].size > 0
    /\ Queried => query # <<>>
    /\ Range(written) \subseteq Range(ClustersOf(gprofiler_calls))

\* A skipped first cluster was followed by a queried second cluster.
C9_Witness ==
    /\ pc = "done"
    /\ Len(log) >= 2
    /\ log[1].size = 0
    /\ log[2].size > 0
    /\ Len(gprofiler_calls) = 1

\* ==================================================== filter_go_terms
\* Term names and patterns are sequences of characters; a pattern is a
\* literal (a regular expression without metacharacters). The empty pattern
\* is a blank line of the pattern file.
TermIds == {"GO:1", "GO:2"}
TermNames == {<<"A", "b">>, <<"b", "a">>}
Patterns == {<<>>, <<"a">>, <<"a", "B">>, <<"b">>}
\* p_value (thousandths) with the significant flag beside it.
TermStats == {[p_value |-> 10, significant |-> TRUE],
              [p_value |-> 50, significant |-> FALSE]}

TermRows ==
    {[source |-> "GO:BP", native |-> id, name |-> nm, p_value |-> st.p_value,
      significant |-> st.significant] :
        id \in TermIds, nm \in TermNames, st \in TermStats}

TermFiles == UNION {[1..n -> TermRows] : n \in 0..MaxRows}
PatternFiles == UNION {[1..n -> Patterns] : n \in 0..MaxPats}

\* re.IGNORECASE on one character.
Lower(ch) ==
    CASE ch = "A" -> "a"
      [] ch = "B" -> "b"
      [] OTHER -> ch

\* A variant of StrMatch that compares characters as they are.
StrMatch_CaseSensitive(pat, nm) ==
    /\ Len(pat) <= Len(nm)
    /\ \A i \in 1..Len(pat) : pat[i] = nm[i]

\* Line 87, name.str.match(pat, flags=re.IGNORECASE) on one name: re.match
\* anchors the pattern at the start of the name.
StrMatch(pat, nm) ==
    /\ Len(pat) <= Len(nm)
    /\ \A i \in 1..Len(pat) : Lower(pat[i]) = Lower(nm[i])

\* Line 87-88: set(index[mask]), the natives of the rows pat matches.
MatchedIds(df, pat) ==
    {df[i].native : i \in {j \in 1..Len(df) : StrMatch(pat, df[j].name)}}

\* Lines 85-88: unique_ids after the patterns pats[k..].
RECURSIVE UnionOfMatches(_, _, _)
UnionOfMatches(df, pats, k) ==
    IF k > Len(pats) THEN {}
    ELSE MatchedIds(df, pats[k]) \cup UnionOfMatches(df, pats, k + 1)

\* The rows of df whose index label (native) is id, in file order.
RECURSIVE RowsLabelled(_, _, _)
RowsLabelled(df, id, k) ==
    IF k > Len(df) THEN <<>>
    ELSE (IF df[k].native = id THEN <<df[k]>> ELSE <<>>)
         \o RowsLabelled(df, id, k + 1)

\* Line 90, go_df.loc[labels]: for each label in turn, every row that
\* carries it.
RECURSIVE Loc(_, _, _)
Loc(df, labels, k) ==
    IF k > Len(labels) THEN <<>>
    ELSE RowsLabelled(df, labels[k], 1) \o Loc(df, labels, k + 1)

\* Lines 90-91: the set is iterated in one (arbitrary) order, the same for
\* the lookup and for list(unique_ids).
FilterReturns(df, ids) ==
    {[filtered |-> Loc(df, o, 1), go_ids |-> o] : o \in Orders(ids)}

\* filter_go_terms as a whole: its possible return values.
filter_go_terms(df, pats) == FilterReturns(df, UnionOfMatches(df, pats, 1))

InitFilter ==
    /\ pc = "match"
    /\ patterns \in PatternFiles
    /\ go_df \in TermFiles
    /\ npat = 0
    /\ unique_ids = {}
    /\ filtered = <<>>
    /\ go_ids = <<>>
    /\ TermsIdle
    /\ HeatIdle

\* One iteration of the loop of lines 86-88.
MatchPattern ==
    /\ pc = "match"
    /\ npat < Len(patterns)
    /\ unique_ids' = unique_ids \cup MatchedIds(go_df, patterns[npat + 1])
    /\ npat' = npat + 1
    /\ UNCHANGED <<pc, patterns, go_df, filtered, go_ids, termsVars, heatVars>>

\* Lines 90-91: the lookup and the return.
LookUp ==
    /\ pc = "match"
    /\ npat = Len(patterns)
    /\ \E r \in FilterReturns(go_df, unique_ids) :
          /\ filtered' = r.filtered
          /\ go_ids' = r.go_ids
    /\ pc' = "returned"
    /\ UNCHANGED <<patterns, go_df, npat, unique_ids, termsVars, heatVars>>

NextFilter == MatchPattern \/ LookUp

SpecFilter == InitFilter /\ [][NextFilter]_vars

\* ------------------------------------- properties of filter_go_terms
\* Case-insensitive match of a pattern at the start of a name.
NameMatches(pat, nm) ==
    /\ Len(pat) <= Len(nm)
    /\ [i \in 1..Len(pat) |-> Lower(pat[i])] =
       [i \in 1..Len(pat) |-> Lower(nm[i])]

RowMatchesSome(row) ==
    \E k \in 1..Len(patterns) : NameMatches(patterns[k], row.name)

\* C4: the identifiers returned are exactly those of the rows whose name
\* matches at least one pattern, case ignored, from the start of the name;
\* with no pattern the result is empty.
C4_IdsOfMatchingRows ==
    pc = "returned" =>
        /\ Range(go_ids) =
              {go_df[i].native : i \in {j \in 1..Len(go_df) : RowMatchesSome(go_df[j])}}
        /\ patterns = <<>> => (go_ids = <<>> /\ filtered = <<>>)

\* A row was selected by a pattern that differs from its name in case only,
\* while a row that holds the pattern further in was not selected.
C4_Witness ==
    /\ pc = "returned"
    /\ patterns = << <<"a">> >>
    /\ \E i, j \in 1..Len(go_df) :
          /\ go_df[i].name = <<"A", "b">> /\ go_df[i].native \in Range(go_ids)
          /\ go_df[j].name = <<"b", "a">> /\ go_df[j].native \notin Range(go_ids)

\* C5: the identifier list holds each identifier at most once, the table
\* holds at most one row per identifier, and the table's rows carry the
\* identifiers of the list in the same order.
C5_DeduplicatedByIdentifier ==
    pc = "returned" =>
        /\ Injective(go_ids)
        /\ \A i, j \in 1..Len(filtered) :
              filtered[i].native = filtered[j].native => i = j
        /\ [i \in 1..Len(filtered) |-> filtered[i].native] = go_ids

\* ================================================ generate_go_heatmap
HeatClusters == {"c1", "c2"}

\* term_paths: a dict with at least one cluster; its keys in dict order.
HeatTermPaths ==
    {s \in UNION {[1..n -> HeatClusters] : n \in 1..Cardinality(HeatClusters)} :
        Injective(s)}

\* The GO-results files the heatmap step reads: at most as many rows as
\* there are identifiers (a longer file only repeats identifiers more).
HeatFiles == {f \in TermFiles : Len(f) <= Cardinality(TermIds)}
HeatPatternFiles == {<<>>, << <<"a">> >>, << <<"b">>, <<"a">> >>}

HeatOrders == {NoList} \cup {Given(s) : s \in HeatTermPaths}
HeatGroups ==
    {NoList,
     Given(<<[key |-> "g", clusters |-> <<"c1", "c2">>]>>),
     Given(<<[key |-> "g1", clusters |-> <<"c2">>],
             [key |-> "g2", clusters |-> <<"c1">>]>>)}

\* Lines 12-13, sqrt(-log(p)): p in thousandths, the result in
\* thousandths, rounded.
transform_pval(p) ==
    CASE p = 10 -> 2146
      [] p = 50 -> 1731
      [] p = 1000 -> 0

\* Line 116: the transformed p_value column, a series labelled by native.
TransformSeries(rows) ==
    [i \in 1..Len(rows) |->
        [label |-> rows[i].native, value |-> transform_pval(rows[i].p_value)]]

SeriesIndex(ser) == [i \in 1..Len(ser) |-> ser[i].label]

\* Lines 122-125: save_df, the filtered rows with the cluster beside them.
SaveRows(cluster_id, rows) ==
    [i \in 1..Len(rows) |->
        [lineage_cluster |-> cluster_id, source |-> rows[i].source,
         native |-> rows[i].native, name |-> rows[i].name,
         p_value |-> rows[i].p_value, significant |-> rows[i].significant]]

\* d[k] = v on a dict.
Put(d, k, v) == [c \in DOMAIN d \cup {k} |-> IF c = k THEN v ELSE d[c]]

\* A variant of MatrixCell that fills a missing entry with the first value
\* of the series.
MatrixCell_FillFirst(t, ids, ser) ==
    IF t \in Range(ids)
    THEN ser[CHOOSE k \in 1..Len(ser) : ser[k].label = t].value
    ELSE ser[1].value

\* Lines 140-142 for one cell: the series is aligned to the columns by
\* label; a column the cluster has no value for stays NaN and is filled
\* with 0.
MatrixCell(t, ids, ser) ==
    IF t \in Range(ids)
    THEN ser[CHOOSE k \in 1..Len(ser) : ser[k].label = t].value
    ELSE 0

\* Lines 163-165: the go_ids of the listed clusters, one after another.
RECURSIVE ConcatIds(_, _, _)
ConcatIds(clusters, ids, k) ==
    IF k > Len(clusters) THEN <<>>
    ELSE ids[clusters[k]] \o ConcatIds(clusters, ids, k + 1)

\* Lines 155-157: one group per entry of order.
OrderVarNames(o, ids) ==
    [grouped |-> TRUE, list |-> <<>>,
     groups |-> [i \in 1..Len(o) |-> [key |-> o[i], vars |-> ids[o[i]]]]]

\* Lines 161-166: one group per key of groups.
GroupVarNames(g, ids) ==
    [grouped |-> TRUE, list |-> <<>>,
     groups |-> [i \in 1..Len(g) |->
                    [key |-> g[i].key, vars |-> ConcatIds(g[i].clusters, ids, 1)]]]

\* A variant of VarNames in which order, when given, wins over groups.
VarNames_OrderWins(o, g, ids, cols) ==
    IF o.given THEN OrderVarNames(o.list, ids)
    ELSE IF g.given THEN GroupVarNames(g.list, ids)
    ELSE [grouped |-> FALSE, list |-> cols, groups |-> <<>>]

\* Lines 148-166: var_names starts as the matrix columns, the order block
\* replaces it, and the groups block, which runs later, replaces it again.
VarNames(o, g, ids, cols) ==
    IF g.given THEN GroupVarNames(g.list, ids)
    ELSE IF o.given THEN OrderVarNames(o.list, ids)
    ELSE [grouped |-> FALSE, list |-> cols, groups |-> <<>>]

InitHeat ==
    /\ pc = "extract"
    /\ term_paths \in HeatTermPaths
    /\ save_filtered_df \in BOOLEAN
    /\ save_path \in SaveDirs
    /\ HeatStart
    /\ TermsIdle
    /\ FilterIdle

\* One iteration of the loop of lines 113-126; the cluster's GO-results
\* file and pattern file are read by filter_go_terms. Setting a scalar
\* column on the empty save_df of a cluster without filtered terms raises
\* at line 124.
ExtractCluster ==
    /\ pc = "extract"
    /\ hpos < Len(term_paths)
    /\ \E f \in HeatFiles, pats \in HeatPatternFiles :
       \E r \in filter_go_terms(f, pats) :
          /\ heat_unique_ids' = heat_unique_ids \cup Range(r.go_ids)
          /\ id_dict' = Put(id_dict, term_paths[hpos + 1], r.go_ids)
          /\ pval_dict' =
                Put(pval_dict, term_paths[hpos + 1], TransformSeries(r.filtered))
          /\ IF r.filtered = <<>>
             THEN /\ pc' = "error"
                  /\ err' = "aggregate"
                  /\ UNCHANGED <<big_df, hpos>>
             ELSE /\ big_df' = big_df \o SaveRows(term_paths[hpos + 1], r.filtered)
                  /\ hpos' = hpos + 1
                  /\ UNCHANGED <<pc, err>>
    /\ UNCHANGED <<heatArgs, order, groups, color_map, xlsx, heat_go_df,
                   var_names, png, termsVars, filterVars>>

\* A variant of SaveFiltered that skips the spreadsheet when save_path is
\* None instead of raising.
SaveFiltered_SkipsWithoutPath ==
    /\ pc = "extract"
    /\ hpos = Len(term_paths)
    /\ pc' = "matrix"
    /\ xlsx' = IF save_filtered_df /\ save_path # None
               THEN [written |-> TRUE, rows |-> big_df] ELSE xlsx
    /\ UNCHANGED <<heatArgs, order, groups, color_map, hpos, id_dict,
                   pval_dict, heat_unique_ids, big_df, heat_go_df, var_names,
                   png, err, termsVars, filterVars>>

\* Lines 128-135: os.path.join(None, ...) raises when save_path is None.
SaveFiltered ==
    /\ pc = "extract"
    /\ hpos = Len(term_paths)
    /\ IF save_filtered_df /\ save_path = None
       THEN /\ pc' = "error"
            /\ err' = "to_excel"
            /\ UNCHANGED xlsx
       ELSE /\ pc' = "matrix"
            /\ xlsx' = IF save_filtered_df
                       THEN [written |-> TRUE, rows |-> big_df] ELSE xlsx
            /\ UNCHANGED err
    /\ UNCHANGED <<heatArgs, order, groups, color_map, hpos, id_dict,
                   pval_dict, heat_unique_ids, big_df, heat_go_df, var_names,
                   png, termsVars, filterVars>>

\* Lines 138-142. The assignment of line 140 aligns the series with the
\* listed columns: labels equal to the list are taken as they stand,
\* otherwise the series is reindexed, which raises on repeated labels.
BuildMatrix ==
    /\ pc = "matrix"
    /\ IF \E c \in Range(term_paths) : SeriesIndex(pval_dict[c]) # id_dict[c]
       THEN /\ pc' = "error"
            /\ err' = "matrix"
            /\ UNCHANGED heat_go_df
       ELSE /\ \E cols \in Orders(heat_unique_ids) :
                 heat_go_df' =
                    [built |-> TRUE, index |-> term_paths, columns |-> cols,
                     cells |-> [c \in Range(term_paths) |->
                                  [t \in heat_unique_ids |->
                                     MatrixCell(t, id_dict[c], pval_dict[c])]]]
            /\ pc' = "plot"
            /\ UNCHANGED err
    /\ UNCHANGED <<heatArgs, order, groups, color_map, hpos, id_dict,
                   pval_dict, heat_unique_ids, big_df, xlsx, var_names, png,
                   termsVars, filterVars>>

\* Lines 144-179, with the arguments order, groups and color_map it reads:
\* reorder_categories (line 154) raises unless order lists every cluster
\* once, id_dict[cluster_idx] (line 165) raises for a cluster that is no
\* key, and line 169 iterates order, which raises when order is None.
Plot ==
    /\ pc = "plot"
    /\ \E o \in HeatOrders, g \in HeatGroups, cm \in BOOLEAN :
          /\ order' = o
          /\ groups' = g
          /\ color_map' = cm
          /\ IF o.given /\ ~(Injective(o.list) /\ Range(o.list) = Range(term_paths))
             THEN pc' = "error" /\ err' = "reorder" /\ UNCHANGED var_names
             ELSE IF g.given /\ \E i \in 1..Len(g.list) :
                        ~(Range(g.list[i].clusters) \subseteq DOMAIN id_dict)
             THEN pc' = "error" /\ err' = "groups" /\ UNCHANGED var_names
             ELSE IF cm /\ ~o.given
             THEN pc' = "error" /\ err' = "colors" /\ UNCHANGED var_names
             ELSE /\ var_names' = VarNames(o, g, id_dict, heat_go_df.columns)
                  /\ pc' = "savefig"
                  /\ UNCHANGED err
    /\ UNCHANGED <<heatArgs, hpos, id_dict, pval_dict, heat_unique_ids,
                   big_df, xlsx, heat_go_df, png, termsVars, filterVars>>

\* Lines 181-186: the image is saved when save_path is given, and the axes
\* are returned.
SaveFigAndReturn ==
    /\ pc = "savefig"
    /\ png' = (save_path # None)
    /\ pc' = "returned"
    /\ UNCHANGED <<heatArgs, order, groups, color_map, hpos, id_dict,
                   pval_dict, heat_unique_ids, big_df, xlsx, heat_go_df,
                   var_names, err, termsVars, filterVars>>

NextHeat ==
    ExtractCluster \/ SaveFiltered \/ BuildMatrix \/ Plot \/ SaveFigAndReturn

SpecHeat == InitHeat /\ [][NextHeat]_vars

\* --------------------------------- properties of generate_go_heatmap
HeatmapCalled == pc \in {"savefig", "returned"}

\* The row of big_df for cluster c and term t.
OwnRow(c, t) ==
    big_df[CHOOSE i \in 1..Len(big_df) :
              big_df[i].lineage_cluster = c /\ big_df[i].native = t]

UnionOfIds == UNION {Range(id_dict[c]) : c \in Range(term_paths)}

\* C6: the matrix has one row per key of term_paths and one column per
\* identifier of the union of the clusters' filtered identifiers, each
\* once; the entry of cluster c and term t is the transformed p-value of
\* t's own row in c's filtered results when t is among c's filtered terms,
\* and 0 otherwise.
C6_MatrixEntries ==
    heat_go_df.built =>
        /\ heat_go_df.index = term_paths
        /\ Injective(heat_go_df.columns)
        /\ Range(heat_go_df.columns) = UnionOfIds
        /\ \A c \in Range(term_paths) : \A t \in UnionOfIds :
              heat_go_df.cells[c][t] =
                 IF t \in Range(id_dict[c])
                 THEN transform_pval(OwnRow(c, t).p_value)
                 ELSE 0

\* A term filtered for both clusters with different p-values, and a term
\* filtered for one cluster only.
C6_Witness ==
    /\ heat_go_df.built
    /\ Len(term_paths) = 2
    /\ \E t \in UnionOfIds :
          /\ t \in Range(id_dict["c1"]) /\ t \in Range(id_dict["c2"])
          /\ heat_go_df.cells["c1"][t] # heat_go_df.cells["c2"][t]
    /\ \E c \in Range(term_paths) : \E t \in UnionOfIds :
          t \notin Range(id_dict[c]) /\ heat_go_df.cells[c][t] = 0

\* Position of a cluster among the keys of term_paths.
KeyPos(c) == CHOOSE i \in 1..Len(term_paths) : term_paths[i] = c

RECURSIVE SumOfLens(_, _)
SumOfLens(d, k) ==
    IF k > Len(term_paths) THEN 0
    ELSE Len(d[term_paths[k]]) + SumOfLens(d, k + 1)

\* C7: the spreadsheet holds exactly one row for each pair (cluster, term
\* of that cluster's filtered identifiers), clusters in term_paths order,
\* so that the row count is the sum of the per-cluster filtered counts.
C7_OneRowPerClusterTerm ==
    xlsx.written =>
        /\ \A c \in Range(term_paths) : \A t \in Range(id_dict[c]) :
              Cardinality({i \in 1..Len(xlsx.rows) :
                             /\ xlsx.rows[i].lineage_cluster = c
                             /\ xlsx.rows[i].native = t}) = 1
        /\ \A i \in 1..Len(xlsx.rows) :
              /\ xlsx.rows[i].lineage_cluster \in Range(term_paths)
              /\ xlsx.rows[i].native \in
                    Range(id_dict[xlsx.rows[i].lineage_cluster])
        /\ Len(xlsx.rows) = SumOfLens(id_dict, 1)
        /\ \A i, j \in 1..Len(xlsx.rows) :
              i < j => KeyPos(xlsx.rows[i].lineage_cluster)
                          <= KeyPos(xlsx.rows[j].lineage_cluster)

\* C8: with groups given the columns are grouped by the keys of groups,
\* each group the concatenation in listed order of the identifiers of its
\* clusters, also when order is given; with only order given there is one
\* group per cluster in that order, holding that cluster's identifiers;
\* with neither, the columns are the ungrouped union of identifiers.
C8_GroupingPrecedence ==
    HeatmapCalled =>
        IF groups.given
        THEN /\ var_names.grouped
             /\ Len(var_names.groups) = Len(groups.list)
             /\ \A i \in 1..Len(groups.list) :
                   /\ var_names.groups[i].key = groups.list[i].key
                   /\ var_names.groups[i].vars =
                         ConcatIds(groups.list[i].clusters, id_dict, 1)
        ELSE IF order.given
        THEN /\ var_names.grouped
             /\ Len(var_names.groups) = Len(order.list)
             /\ \A i \in 1..Len(order.list) :
                   /\ var_names.groups[i].key = order.list[i]
                   /\ var_names.groups[i].vars = id_dict[order.list[i]]
        ELSE /\ ~var_names.grouped
             /\ Injective(var_names.list)
             /\ Range(var_names.list) = UnionOfIds

\* The heatmap was drawn with both groups and order given, and the groups
\* differ from what order alone would give.
C8_Witness ==
    /\ pc = "returned"
    /\ groups.given
    /\ order.given
    /\ var_names # OrderVarNames(order.list, id_dict)

DefaultSaving == save_filtered_df /\ save_path = None

\* C10 as stated: with the default saving arguments the call fails at the
\* spreadsheet-writing step, before the matrix is built and before a
\* heatmap is drawn or returned; a heatmap drawn with save_path None means
\* save_filtered_df is False and neither spreadsheet nor image is written.
C10_FailsAtSpreadsheetStep ==
    /\ DefaultSaving =>
          /\ ~heat_go_df.built
          /\ pc \in {"extract", "error"}
          /\ pc = "error" => err = "to_excel"
    /\ (HeatmapCalled /\ save_path = None) =>
          (~save_filtered_df /\ ~xlsx.written /\ ~png)

\* C10 as amended: with the default saving arguments the call never gets
\* past the spreadsheet-writing step: it fails there once every cluster
\* has contributed filtered rows, and it fails earlier, while aggregating
\* a cluster's rows, when that cluster's filtered result is empty; the
\* rest as stated.
C10_FailsByTheSpreadsheetStep ==
    /\ DefaultSaving =>
          /\ ~heat_go_df.built
          /\ pc \in {"extract", "error"}
          /\ pc = "error" =>
                \/ /\ err = "to_excel"
                   /\ hpos = Len(term_paths)
                   /\ \A c \in Range(term_paths) : id_dict[c] # <<>>
                \/ /\ err = "aggregate"
                   /\ hpos < Len(term_paths)
                   /\ id_dict[term_paths[hpos + 1]] = <<>>
    /\ (HeatmapCalled /\ save_path = None) =>
          (~save_filtered_df /\ ~xlsx.written /\ ~png)

\* A call with the default saving arguments failed at the spreadsheet
\* step with rows collected for two clusters.
C10_Witness ==
    /\ DefaultSaving
    /\ pc = "error"
    /\ err = "to_excel"
    /\ Len(term_paths) = 2
    /\ big_df # <<>>

===========================================================================
